---------------------------- MODULE Spec2Model ----------------------------
(***************************************************************************)
(* The transcription relay: the POST handler of                            *)
(* src/app/api/transcribe/route.ts.  An invocation runs from "start"       *)
(* through its await points (req.formData(), audioFile.arrayBuffer(),      *)
(* fetch(), deepgramResponse.text() / .json()) to "done"; the code between *)
(* two await points runs atomically, invocations interleave at the await   *)
(* points.  JavaScript values are tagged records, a thrown value is a      *)
(* completion [c |-> "throw"].                                             *)
(***************************************************************************)
EXTENDS Integers, Sequences, FiniteSets, TLC

\* Number of POST invocations in flight.
NumInvocations == 2

Invocations == 1..NumInvocations

VARIABLES
    deepgramApiKey, \* deepgramApiKey[i]: process.env.DEEPGRAM_API_KEY as i read it
    req,          \* req[i]: the request invocation i was called with
    pc,           \* pc[i]: the await point invocation i is suspended at
    audioFile,    \* audioFile[i]: formData.get("audio")
    status,       \* status[i]: deepgramResponse.status
    calls,        \* calls[i]: the outbound fetch calls invocation i has issued
    console,      \* console[i]: the console entries invocation i has written
    awaited,      \* awaited[i]: what the awaits of invocation i settled to, in order
    result        \* result[i]: what the promise returned by POST settled to

vars == <<deepgramApiKey, req, pc, audioFile, status, calls, console, awaited, result>>

---------------------------------------------------------------------------
\* JavaScript values

Undefined == [t |-> "undefined"]
Null == [t |-> "null"]
Str(s) == [t |-> "string", s |-> s]
Num(n) == [t |-> "number", n |-> n]
Obj(o) == [t |-> "object", o |-> o]
Arr(a) == [t |-> "array", a |-> a]
File(name, type, bytes) == [t |-> "file", name |-> name, type |-> type, bytes |-> bytes]
ArrayBuffer(bytes) == [t |-> "arraybuffer", bytes |-> bytes]
Response(st) == [t |-> "response", status |-> st]
Err(name, message) == [t |-> "error", name |-> name, message |-> message]

Normal(v) == [c |-> "normal", v |-> v]
Throw(e) == [c |-> "throw", v |-> e]

Nullish(v) == v.t \in {"undefined", "null"}

\* ToBoolean: what `!x` and `x || y` test.
Truthy(v) ==
    CASE v.t \in {"undefined", "null"} -> FALSE
      [] v.t = "string" -> v.s # ""
      [] v.t = "number" -> v.n # 0
      [] OTHER -> TRUE

\* `a || b`
Or(a, b) == IF Truthy(a) THEN a ELSE b

TypeName(v) == IF v.t = "null" THEN "null" ELSE "undefined"

\* The TypeError of reading property k of null or undefined.
CannotRead(v, k) ==
    Err("TypeError",
        "Cannot read properties of " \o TypeName(v) \o " (reading '" \o k \o "')")

\* `v.k` on a value that is neither null nor undefined.
Prop(v, k) ==
    CASE v.t = "object" -> IF k \in DOMAIN v.o THEN v.o[k] ELSE Undefined
      [] v.t = "file" ->
            CASE k = "name" -> Str(v.name)
              [] k = "type" -> Str(v.type)
              [] k = "size" -> Num(Len(v.bytes))
              [] OTHER -> Undefined
      [] v.t = "error" ->
            CASE k = "message" -> Str(v.message)
              [] k = "name" -> Str(v.name)
              [] OTHER -> Undefined
      [] OTHER -> Undefined

\* `v.k`
Get(v, k) == IF Nullish(v) THEN Throw(CannotRead(v, k)) ELSE Normal(Prop(v, k))

\* `v?.k`
OptProp(v, k) == IF Nullish(v) THEN Undefined ELSE Prop(v, k)

\* `v?.[0]`
OptIndex0(v) ==
    CASE Nullish(v) -> Undefined
      [] v.t = "array" -> IF Len(v.a) >= 1 THEN v.a[1] ELSE Undefined
      [] v.t = "string" -> IF Len(v.s) >= 1 THEN Str(SubSeq(v.s, 1, 1)) ELSE Undefined
      [] v.t = "object" -> IF "0" \in DOMAIN v.o THEN v.o["0"] ELSE Undefined
      [] OTHER -> Undefined

\* String.prototype.startsWith
StartsWith(s, p) == Len(s) >= Len(p) /\ SubSeq(s, 1, Len(p)) = p

---------------------------------------------------------------------------
\* Inputs: the environment, the request, the provider

\* process.env.DEEPGRAM_API_KEY: unset, empty, or a credential.
KeyValues == {Undefined, Str(""), Str("k1"), Str("k2")}

\* Values a rejected await or a throwing call can raise.
Faults == {Err("TypeError", "fetch failed"), Null}

\* Payloads of the uploaded file: no bytes, or one byte.
AudioBytes == {<<>>, <<0>>}

\* What formData.get("audio") can be: null (no such field), a string field,
\* or a File.
AudioFields ==
    {Null, Str("hello"), File("notes.txt", "text/plain", <<0>>)}
        \cup {File("recording.webm", "audio/webm", b) : b \in AudioBytes}

\* A request: whether its body parses as form data, and its "audio" field.
Request(parses, audio) == [t |-> "request", parses |-> parses, audio |-> audio]

NoRequest == Request(FALSE, Undefined)

Requests == {Request(FALSE, Null)} \cup {Request(TRUE, a) : a \in AudioFields}

\* Status codes of the provider's response.
Statuses == {200, 503}

B_error == "{\"error\":\"bad audio\",\"message\":\"detail\"}"
B_message == "{\"message\":\"quota exceeded\"}"
B_object == "{}"
B_null == "null"
B_text == "oops"
B_hello == "{\"results\":{\"channels\":[{\"alternatives\":[{\"transcript\":\"hello world\"}]}]}}"
B_blank == "{\"results\":{\"channels\":[{\"alternatives\":[{\"transcript\":\"\"}]}]}}"
B_nochannel == "{\"results\":{\"channels\":[]}}"
B_number == "{\"results\":{\"channels\":[{\"alternatives\":[{\"transcript\":42}]}]}}"

\* Bodies the provider sends with a non-success status.
ErrorBodies == {B_error, B_message, B_object, B_null, B_text}

\* Bodies the provider sends with a success status.
SuccessBodies == {B_hello, B_blank, B_nochannel, B_number, B_null, B_text}

WithTranscript(v) ==
    Obj([results |-> Obj([channels |-> Arr(<<Obj([alternatives |->
        Arr(<<Obj([transcript |-> v])>>)])>>)])])

\* JSON.parse, on the texts of ErrorBodies and SuccessBodies.
JSONParse(text) ==
    CASE text = B_error ->
            Normal(Obj([error |-> Str("bad audio"), message |-> Str("detail")]))
      [] text = B_message -> Normal(Obj([message |-> Str("quota exceeded")]))
      [] text = B_object -> Normal(Obj(<<>>))
      [] text = B_null -> Normal(Null)
      [] text = B_hello -> Normal(WithTranscript(Str("hello world")))
      [] text = B_blank -> Normal(WithTranscript(Str("")))
      [] text = B_nochannel -> Normal(Obj([results |-> Obj([channels |-> Arr(<<>>)])]))
      [] text = B_number -> Normal(WithTranscript(Num(42)))
      [] OTHER ->
            Throw(Err("SyntaxError",
                "Unexpected token '" \o SubSeq(text, 1, 1) \o "', \"" \o text
                    \o "\" is not valid JSON"))

\* JSON.stringify, on the values a catch clause can hold.
JSONStringify(v) ==
    CASE v.t = "string" -> "\"" \o v.s \o "\""
      [] v.t = "null" -> "null"
      [] OTHER -> "{}"

---------------------------------------------------------------------------
\* The handler, one definition per stretch of code between two await points

DeepgramUrl == "https://api.deepgram.com/v1/listen?model=nova-2&smart_format=true&punctuate=true"

\* NextResponse.json(body) without a status.
DefaultStatus == 200

\* NextResponse.json({[field]: value}, {status})
NextResponseJson(field, value, st) ==
    [kind |-> "response", status |-> st, field |-> field, value |-> value]

Pending == [kind |-> "pending", status |-> 0, field |-> "", value |-> Undefined]

\* The promise returned by POST rejects with e.
Rejected(e) == [kind |-> "rejected", status |-> 0, field |-> "", value |-> e]

\* console.log / console.warn / console.error
Entry(level, args) == [level |-> level, args |-> args]

Return(logs, response) == [logs |-> logs, out |-> <<>>, k |-> "return", v |-> response]
Await(logs, out, point) == [logs |-> logs, out |-> out, k |-> "await", v |-> point]
Raise(logs, e) == [logs |-> logs, out |-> <<>>, k |-> "throw", v |-> e]

\* Configured testing `deepgramApiKey === undefined` instead of `!deepgramApiKey`.
ConfiguredUnlessUndefined(key) == key.t # "undefined"

\* `!deepgramApiKey` is false
Configured(key) == Truthy(key)

\* From the entry of POST to `await req.formData()`.
ConfigurationCheck(key) ==
    IF ~Configured(key)
    THEN Return(
            <<Entry("error",
                <<Str("Server Error: DEEPGRAM_API_KEY environment variable not set.")>>)>>,
            NextResponseJson("error",
                Str("Deepgram API Key not configured. Please set DEEPGRAM_API_KEY environment variable."),
                500))
    ELSE Await(<<>>, <<>>, "formData")

\* `audioFile.type.startsWith("audio/")`
TypeIsAudio(file) ==
    LET type == Prop(file, "type")
    IN  IF type.t = "string"
        THEN Normal(StartsWith(type.s, "audio/"))
        ELSE Throw(CannotRead(type, "startsWith"))

\* From the file type check to `await audioFile.arrayBuffer()`.
TypeValidation(file) ==
    LET isAudio == TypeIsAudio(file)
    IN  CASE isAudio.c = "throw" -> Raise(<<>>, isAudio.v)
          [] isAudio.c = "normal" /\ ~isAudio.v ->
                Return(
                    <<Entry("error",
                        <<Str("Server Error: Invalid file type provided:"),
                          Prop(file, "type")>>)>>,
                    NextResponseJson("error",
                        Str("Invalid file type. Only audio files are supported."), 400))
          [] OTHER -> Await(<<>>, <<>>, "arrayBuffer")

\* PayloadValidation testing `audioFile === undefined` instead of `!audioFile`.
PayloadValidationUndefinedOnly(file) ==
    CASE file.t = "undefined" ->
            Return(
                <<Entry("error", <<Str("Server Error: No audio file provided in request.")>>)>>,
                NextResponseJson("error", Str("No audio file provided."), 400))
      [] file.t = "null" -> Raise(<<>>, CannotRead(file, "type"))
      [] OTHER -> TypeValidation(file)

\* From `formData.get("audio")` to `await audioFile.arrayBuffer()`.
PayloadValidation(file) ==
    IF ~Truthy(file)
    THEN Return(
            <<Entry("error", <<Str("Server Error: No audio file provided in request.")>>)>>,
            NextResponseJson("error", Str("No audio file provided."), 400))
    ELSE TypeValidation(file)

\* LoggedHeaders logging the headers it sends.
LoggedHeadersUnmasked(key, file) ==
    Obj(("Authorization" :> Str("Token " \o key.s))
            @@ ("Content-Type" :> Prop(file, "type")))

\* The headers object the handler logs.
LoggedHeaders(key, file) ==
    Obj(("Authorization" :> Str("Token [API Key Masked]"))
            @@ ("Content-Type" :> Prop(file, "type")))

\* The outbound call: fetch(url, {method, headers, body}).
OutboundCall(key, file, audioBuffer) ==
    [url |-> DeepgramUrl,
     method |-> "POST",
     Authorization |-> "Token " \o key.s,
     ContentType |-> Prop(file, "type").s,
     body |-> audioBuffer]

\* From the resolution of audioFile.arrayBuffer() to `await fetch(...)`.
UpstreamCall(key, file, audioBuffer) ==
    Await(
        <<Entry("log",
            <<Str("Received audio file:"), Prop(file, "name"), Prop(file, "type"),
              Prop(file, "size"), Str("bytes")>>),
          Entry("log", <<Str("Sending request to Deepgram:"), Str(DeepgramUrl)>>),
          Entry("log", <<Str("Headers:"), LoggedHeaders(key, file)>>),
          Entry("log", <<Str("Body size:"), Num(Len(audioBuffer)), Str("bytes")>>)>>,
        <<OutboundCall(key, file, audioBuffer)>>,
        "fetch")

\* Response.ok
Ok(st) == st \in 200..299

\* From the resolution of fetch() to `await deepgramResponse.text()` or
\* `await deepgramResponse.json()`.
ResponseReceived(st) ==
    IF ~Ok(st) THEN Await(<<>>, <<>>, "text") ELSE Await(<<>>, <<>>, "json")

\* `errorJson.error || errorJson.message || "Deepgram API error"`
StatedError(errorJson) ==
    LET error == Get(errorJson, "error")
    IN  IF error.c = "throw"
        THEN error
        ELSE Normal(Or(Or(error.v, Prop(errorJson, "message")), Str("Deepgram API error")))

\* The inner try/catch: the provider's stated error, or the raw text.
UpstreamErrorMessage(errorText) ==
    LET errorJson == JSONParse(errorText)
        stated == IF errorJson.c = "throw" THEN errorJson ELSE StatedError(errorJson.v)
    IN  IF stated.c = "throw"
        THEN Str("Deepgram API error: " \o errorText)
        ELSE stated.v

\* From the resolution of deepgramResponse.text() to the return.
UpstreamFailure(st, errorText) ==
    Return(
        <<Entry("error",
            <<Str("Deepgram API returned an error:"), Num(st), Str(errorText)>>)>>,
        NextResponseJson("error", UpstreamErrorMessage(errorText), st))

\* `deepgramData.results?.channels?.[0]?.alternatives?.[0]?.transcript || ""`
Transcription(deepgramData) ==
    LET results == Get(deepgramData, "results")
    IN  IF results.c = "throw"
        THEN results
        ELSE Normal(
                Or(OptProp(OptIndex0(OptProp(OptIndex0(OptProp(results.v, "channels")),
                        "alternatives")), "transcript"),
                   Str("")))

\* From the resolution of deepgramResponse.json() to the return.
ResponseNormalization(deepgramData) ==
    LET transcription == Transcription(deepgramData)
    IN  CASE transcription.c = "throw" -> Raise(<<>>, transcription.v)
          [] transcription.c = "normal" /\ ~Truthy(transcription.v) ->
                Return(
                    <<Entry("warn", <<Str("Deepgram returned no transcription text.")>>)>>,
                    NextResponseJson("error",
                        Str("No transcript could be generated from the audio."), 404))
          [] OTHER -> Return(<<>>, NextResponseJson("transcript", transcription.v, DefaultStatus))

\* The catch clause of POST.
CatchClause(error) ==
    LET logged == <<Entry("error", <<Str("Server-side transcription error:"), error>>)>>
        message == Get(error, "message")
        statusCode == 500
    IN  CASE message.c = "throw" -> Raise(logged, message.v)
          [] message.c = "normal" /\ Truthy(message.v) ->
                Return(logged,
                    NextResponseJson("error",
                        Str("Transcription failed: " \o message.v.s), statusCode))
          [] OTHER ->
                Return(logged,
                    NextResponseJson("error",
                        Str("An unknown error occurred: " \o JSONStringify(error)),
                        statusCode))

\* The try block around the handler: a throw runs the catch clause.
Try(segment) ==
    IF segment.k = "throw"
    THEN LET c == CatchClause(segment.v)
         IN  [c EXCEPT !.logs = segment.logs \o c.logs]
    ELSE segment

---------------------------------------------------------------------------
\* The invocations

\* What an await settles to.
Resolve(v) == [ok |-> TRUE, v |-> v]
Reject(e) == [ok |-> FALSE, v |-> e]

Rejections == {Reject(f) : f \in Faults}

\* `await x` inside the try block: a rejection is thrown at the await.
Awaited(o, segment) == Try(IF o.ok THEN segment ELSE Raise(<<>>, o.v))

\* Fetch answering from a cache a call that was already made.
FetchMemoized(cs, i, out) ==
    [cs EXCEPT ![i] =
        @ \o SelectSeq(out, LAMBDA c : \A j \in DOMAIN cs : \A k \in DOMAIN cs[j] : cs[j][k] # c)]

\* fetch(): the calls of `out` leave for the provider.
Fetch(cs, i, out) == [cs EXCEPT ![i] = @ \o out]

\* Invocation i runs `segment`, entered when its await settled to the values `os`.
Run(i, os, segment) ==
    /\ awaited' = [awaited EXCEPT ![i] = @ \o os]
    /\ console' = [console EXCEPT ![i] = @ \o segment.logs]
    /\ calls' = Fetch(calls, i, segment.out)
    /\ pc' = [pc EXCEPT ![i] = IF segment.k = "await" THEN segment.v ELSE "done"]
    /\ result' = [result EXCEPT ![i] =
                    CASE segment.k = "return" -> segment.v
                      [] segment.k = "throw" -> Rejected(segment.v)
                      [] OTHER -> @]

Init ==
    /\ deepgramApiKey = [i \in Invocations |-> Undefined]
    /\ req = [i \in Invocations |-> NoRequest]
    /\ pc = [i \in Invocations |-> "start"]
    /\ audioFile = [i \in Invocations |-> Undefined]
    /\ status = [i \in Invocations |-> 0]
    /\ calls = [i \in Invocations |-> <<>>]
    /\ console = [i \in Invocations |-> <<>>]
    /\ awaited = [i \in Invocations |-> <<>>]
    /\ result = [i \in Invocations |-> Pending]

\* POST(req) is called: the credential is read from the environment and
\* checked, then req.formData() is awaited.
Start(i) ==
    /\ pc[i] = "start"
    /\ \E key \in KeyValues, r \in Requests :
        /\ deepgramApiKey' = [deepgramApiKey EXCEPT ![i] = key]
        /\ req' = [req EXCEPT ![i] = r]
        /\ Run(i, <<>>, Try(ConfigurationCheck(key)))
    /\ UNCHANGED <<audioFile, status>>

\* req.formData() followed by formData.get("audio")
FormData(r) ==
    IF r.parses
    THEN Resolve(r.audio)
    ELSE Reject(Err("TypeError", "Failed to parse body as FormData."))

\* req.formData() settles.
FormDataSettled(i) ==
    /\ pc[i] = "formData"
    /\ LET o == FormData(req[i])
       IN  /\ audioFile' = [audioFile EXCEPT ![i] = IF o.ok THEN o.v ELSE @]
           /\ Run(i, <<o>>, Awaited(o, PayloadValidation(o.v)))
    /\ UNCHANGED <<deepgramApiKey, req, status>>

\* audioFile.arrayBuffer() settles.
ArrayBufferSettled(i) ==
    /\ pc[i] = "arrayBuffer"
    /\ \E o \in Rejections \cup {Resolve(ArrayBuffer(audioFile[i].bytes))} :
        Run(i, <<o>>, Awaited(o, UpstreamCall(deepgramApiKey[i], audioFile[i], o.v.bytes)))
    /\ UNCHANGED <<deepgramApiKey, req, audioFile, status>>

\* fetch() settles.
FetchSettled(i) ==
    /\ pc[i] = "fetch"
    /\ \E o \in Rejections \cup {Resolve(Response(st)) : st \in Statuses} :
        /\ status' = [status EXCEPT ![i] = IF o.ok THEN o.v.status ELSE @]
        /\ Run(i, <<o>>, Awaited(o, ResponseReceived(o.v.status)))
    /\ UNCHANGED <<deepgramApiKey, req, audioFile>>

\* deepgramResponse.text() settles.
TextSettled(i) ==
    /\ pc[i] = "text"
    /\ \E o \in Rejections \cup {Resolve(Str(b)) : b \in ErrorBodies} :
        Run(i, <<o>>, Awaited(o, UpstreamFailure(status[i], o.v.s)))
    /\ UNCHANGED <<deepgramApiKey, req, audioFile, status>>

\* deepgramResponse.json(): the body is read and parsed.
ResponseJson(o) ==
    IF ~o.ok
    THEN o
    ELSE LET parsed == JSONParse(o.v.s)
         IN  IF parsed.c = "throw" THEN Reject(parsed.v) ELSE Resolve(parsed.v)

\* deepgramResponse.json() settles.
JsonSettled(i) ==
    /\ pc[i] = "json"
    /\ \E o \in Rejections \cup {Resolve(Str(b)) : b \in SuccessBodies} :
        LET deepgramData == ResponseJson(o)
        IN  Run(i, <<o>>, Awaited(deepgramData, ResponseNormalization(deepgramData.v)))
    /\ UNCHANGED <<deepgramApiKey, req, audioFile, status>>

Next ==
    \E i \in Invocations :
        \/ Start(i)
        \/ FormDataSettled(i)
        \/ ArrayBufferSettled(i)
        \/ FetchSettled(i)
        \/ TextSettled(i)
        \/ JsonSettled(i)

Spec == Init /\ [][Next]_vars

---------------------------------------------------------------------------
\* Properties

Done(i) == pc[i] = "done"

Called(i) == pc[i] # "start"

NoCredential(i) == deepgramApiKey[i] \in {Undefined, Str("")}

\* The request's form parses and has no "audio" field.
MissingAudio(i) == req[i].parses /\ req[i].audio = Null

\* The request's form parses and its "audio" field is a file declared audio/*.
DeclaredAudio(i) ==
    /\ req[i].parses
    /\ req[i].audio.t = "file"
    /\ StartsWith(req[i].audio.type, "audio/")

\* Invocation i got past validation: audioFile.arrayBuffer() has settled.
BytesSettled(i) == Len(awaited[i]) >= 2

\* The provider answered invocation i with a status and the body text b.
ProviderAnswered(i) ==
    /\ Len(awaited[i]) = 4
    /\ awaited[i][3].ok
    /\ awaited[i][4].ok

ProviderBody(i) == awaited[i][4].v.s

IsError(r, st, message) == r = NextResponseJson("error", Str(message), st)

\* C1: every invocation that finishes ends in a {transcript} or an {error}
\* response, and a fault raised at an await becomes a status-500 {error}
\* carrying its message, or the stringified fault when it has no message; no
\* fault escapes the handler.
C1_FaultsBecomeErrorResults ==
    \A i \in Invocations :
        Done(i) =>
            /\ result[i].kind = "response"
            /\ result[i].field \in {"transcript", "error"}
            /\ (awaited[i] # <<>> /\ ~awaited[i][Len(awaited[i])].ok) =>
                    LET fault == awaited[i][Len(awaited[i])].v
                    IN  IsError(result[i], 500,
                            IF fault.t = "error" /\ fault.message # ""
                            THEN "Transcription failed: " \o fault.message
                            ELSE "An unknown error occurred: " \o JSONStringify(fault))

\* C2: without a credential (unset or empty) POST returns a status-500 error
\* before anything else: nothing was awaited, no form was read, and the
\* invocation made no outbound call, whatever the request.
C2_NoCredentialNoCall ==
    \A i \in Invocations :
        (Called(i) /\ NoCredential(i)) =>
            /\ Done(i)
            /\ result[i].kind = "response"
            /\ result[i].status = 500
            /\ result[i].field = "error"
            /\ awaited[i] = <<>>
            /\ audioFile[i] = Undefined
            /\ calls[i] = <<>>

\* C2 happens: a valid upload was refused because the credential is empty.
C2_Witness ==
    \E i \in Invocations :
        /\ Done(i)
        /\ deepgramApiKey[i] = Str("")
        /\ DeclaredAudio(i)
        /\ result[i].status = 500

C4_NonAudioTypeIsBadRequest ==
    \A i \in Invocations :
        (Done(i) /\ ~NoCredential(i) /\ req[i].parses /\ req[i].audio # Null
                /\ ~DeclaredAudio(i)) =>
            /\ IsError(result[i], 400, "Invalid file type. Only audio files are supported.")
            /\ calls[i] = <<>>

\* The provider answered invocation i with a success status.
ProviderSucceeded(i) == ProviderAnswered(i) /\ awaited[i][3].v.status \in 200..299

\* The provider answered invocation i with a non-success status.
ProviderFailed(i) == ProviderAnswered(i) /\ awaited[i][3].v.status \notin 200..299

\* C5: when the provider answers with a success status and a body whose
\* transcript is the non-empty text "hello world", the relay returns
\* {transcript: "hello world"} with status 200; and a response carrying a
\* transcript is produced in no other case: it carries a non-empty text, the
\* provider's, with status 200.
C5_TranscriptOnlyForText ==
    \A i \in Invocations :
        Done(i) =>
            /\ (ProviderSucceeded(i) /\ ProviderBody(i) = B_hello) =>
                    result[i] = NextResponseJson("transcript", Str("hello world"), 200)
            /\ (result[i].kind = "response" /\ result[i].field = "transcript") =>
                    /\ ProviderSucceeded(i)
                    /\ result[i].status = 200
                    /\ result[i].value.t = "string"
                    /\ result[i].value.s # ""

\* Bodies that parse as JSON and hold no transcript text at the end of
\* results -> first channel -> first alternative -> transcript.
C6_EmptyTranscriptBodies == {B_blank, B_nochannel, B_object, B_null}

\* C6: a success status with a body whose transcript path is empty or
\* absent at any level gives the status-404 "no transcript" error, never a
\* 200 and never a 500.
C6_EmptyTranscriptIsNotFound ==
    \A i \in Invocations :
        (Done(i) /\ ProviderSucceeded(i) /\ ProviderBody(i) \in C6_EmptyTranscriptBodies) =>
            IsError(result[i], 404, "No transcript could be generated from the audio.")

\* The texts that are JSON.
C7_IsJSON(b) ==
    b \in {B_error, B_message, B_object, B_null, B_hello, B_blank, B_nochannel, B_number}

\* What C7 says the error message is, for the body b of a failed response.
C7_Message(b) ==
    CASE b = B_error -> "bad audio"
      [] b = B_message -> "quota exceeded"
      [] C7_IsJSON(b) -> "Deepgram API error"
      [] OTHER -> "Deepgram API error: " \o b

\* C7: a non-success status s of the provider is returned unchanged, with
\* the error field of a body that parses as JSON, else its message field,
\* else a generic string; the raw text is embedded only when the body does
\* not parse.
C7_UpstreamFailurePassedThrough ==
    \A i \in Invocations :
        (Done(i) /\ ProviderFailed(i)) =>
            IsError(result[i], awaited[i][3].v.status, C7_Message(ProviderBody(i)))

\* A call with the credential taken out of it.
C8_Uncredentialed(cs) == [k \in DOMAIN cs |-> [cs[k] EXCEPT !.Authorization = ""]]

\* C8: two invocations that differ only in the non-empty credential, and
\* whose awaits settled alike, wrote the same console entries, returned the
\* same result and made the same calls but for the Authorization header, which
\* is "Token " and the credential.
C8_CredentialNeverLoggedNorEchoed ==
    /\ \A i, j \in Invocations :
            (/\ i < j
             /\ Called(i) /\ Called(j)
             /\ ~NoCredential(i) /\ ~NoCredential(j)
             /\ req[i] = req[j]
             /\ awaited[i] = awaited[j]) =>
                /\ console[i] = console[j]
                /\ result[i] = result[j]
                /\ C8_Uncredentialed(calls[i]) = C8_Uncredentialed(calls[j])
    /\ \A i \in Invocations : \A k \in DOMAIN calls[i] :
            calls[i][k].Authorization = "Token " \o deepgramApiKey[i].s

\* C8 happens: two invocations with different credentials went through the
\* upstream call and the provider's answer alike.
C8_Witness ==
    \E i, j \in Invocations :
        /\ Done(i) /\ Done(j)
        /\ deepgramApiKey[i] = Str("k1")
        /\ deepgramApiKey[j] = Str("k2")
        /\ req[i] = req[j]
        /\ awaited[i] = awaited[j]
        /\ ProviderAnswered(i)
        /\ Len(console[i]) >= 4
        /\ Len(calls[i]) = 1

\* C9: every outbound call carries the declared MIME type of the audio
\* file, which starts with "audio/", and a body that is not empty.
C9_ForwardedSubmissionIsValid ==
    \A i \in Invocations : \A k \in DOMAIN calls[i] :
        /\ calls[i][k].ContentType = audioFile[i].type
        /\ StartsWith(calls[i][k].ContentType, "audio/")
        /\ Len(calls[i][k].body) > 0

\* Two invocations with the same credential and request whose awaits
\* settled alike ended alike.
C10_Independent ==
    \A i, j \in Invocations :
        (/\ i < j
         /\ deepgramApiKey[i] = deepgramApiKey[j]
         /\ req[i] = req[j]
         /\ awaited[i] = awaited[j]) =>
            /\ pc[i] = pc[j]
            /\ result[i] = result[j]
            /\ calls[i] = calls[j]

\* C10 as stated: every invocation that passed configuration and validation
\* made exactly one outbound call, and the invocations are independent.
C10_OneCallOnceValidated ==
    /\ \A i \in Invocations :
            (Done(i) /\ BytesSettled(i)) => Len(calls[i]) = 1
    /\ C10_Independent

\* C10, amended: an invocation has made exactly one outbound call once it
\* passed configuration and validation and audioFile.arrayBuffer() resolved,
\* and none otherwise; and the invocations are independent.
C10_OneCallOnceBytesRead ==
    /\ \A i \in Invocations :
            Len(calls[i]) = IF BytesSettled(i) /\ awaited[i][2].ok THEN 1 ELSE 0
    /\ C10_Independent

\* C10 happens: the same payload was submitted twice with the same
\* credential, each invocation made its own call, and the two got different
\* results from different answers of the provider.
C10_Witness ==
    \E i, j \in Invocations :
        /\ i # j
        /\ Done(i) /\ Done(j)
        /\ deepgramApiKey[i] = deepgramApiKey[j]
        /\ req[i] = req[j]
        /\ Len(calls[i]) = 1 /\ Len(calls[j]) = 1
        /\ calls[i] = calls[j]
        /\ result[i].kind = "response" /\ result[j].kind = "response"
        /\ result[i].field = "transcript"
        /\ result[j].field = "error"

=============================================================================
